---- MODULE Spec2Model ----
(***************************************************************************)
(* A model of fastmcp/server/http.py: the request-scoped context variable, *)
(* the auth gate, the SSE and streamable-HTTP application builders, the    *)
(* middleware chain the built application runs a request through, the SSE  *)
(* connections of handle_sse, and the session manager's lifespan.          *)
(*                                                                         *)
(* Optional values (Python's `X | None`) are sequences of length at most   *)
(* one: <<>> is None, <<v>> is the value v.                                *)
(***************************************************************************)
EXTENDS Integers, Sequences, FiniteSets, TLC

VARIABLES
    session_manager,  \* server._session_manager: 0 (None) or an index into managers
    managers,         \* every StreamableHTTPSessionManager constructed so far
    apps,             \* every Starlette application returned by a build call
    callerMw,         \* the middleware list object the caller holds and passes in
    lastBuild,        \* what the most recent build call was given and did
    lifespans,        \* per application: where its lifespan hook stands
    tasks,            \* per handling task: the request and its position in the chain
    ctx,              \* per task context: the value of _current_http_request
    frames,           \* per task: the open RequestContextMiddleware calls
    obs,              \* per task: what _current_http_request.get() just returned
    connections       \* every SSE connection opened by handle_sse so far

vars == <<session_manager, managers, apps, callerMw, lastBuild, lifespans,
          tasks, ctx, frames, obs, connections>>

----------------------------------------------------------------------------
(* Bounds *)

MaxApps == 2        \* build calls that return an application
MaxUserMw == 2      \* stages in the list the caller brings
MaxDepth == 2       \* nested RequestContextMiddleware calls in one task
NumTasks == 2       \* concurrently running handling tasks
MaxConns == 2       \* SSE connections opened over the life of an application

----------------------------------------------------------------------------
(* Optional values *)

NoneVal == <<>>
Some(v) == <<v>>
IsNone(o) == o = <<>>
Val(o) == o[1]
\* Python's `o or []` on an optional list
OrEmpty(o) == IF IsNone(o) \/ Val(o) = <<>> THEN <<>> ELSE Val(o)
\* Python's truth value of an optional list: None and [] are both false
Truthy(o) == ~IsNone(o) /\ Val(o) # <<>>

Tasks == 1..NumTasks

----------------------------------------------------------------------------
(* Stages of a middleware list *)

AuthenticationStage == "AuthenticationMiddleware"
AuthContextStage == "AuthContextMiddleware"
RequestContextStage == "RequestContextMiddleware"
UserStages == {"UserMiddleware1", "UserMiddleware2"}

\* the lists a caller may bring: its own stages, each at most once
UserMwLists ==
    {s \in UNION {[1..n -> UserStages] : n \in 0..MaxUserMw} :
        \A i, j \in DOMAIN s : i # j => s[i] # s[j]}

----------------------------------------------------------------------------
(* Routes *)

sse_path == "/sse"
message_path == "/messages/"
streamable_http_path == "/mcp"
auth_path == "/authorize"
user_path == "/custom"

AnyMethod == {"GET", "POST"}

MkRoute(path, methods, endpoint, wrapped, scopes) ==
    [path |-> path, methods |-> methods, endpoint |-> endpoint,
     require_auth |-> wrapped, required_scopes |-> scopes]

\* the routes create_auth_routes returns, one standing for all of them
create_auth_routes ==
    << MkRoute(auth_path, {"GET"}, "auth", FALSE, <<>>) >>

\* the routes a caller may bring
UserRoutes ==
    { MkRoute(user_path, {"GET"}, "user", FALSE, <<>>),
      MkRoute(sse_path, AnyMethod, "user", FALSE, <<>>) }

RouteArgs == {NoneVal} \cup {Some(<<r>>) : r \in UserRoutes}

----------------------------------------------------------------------------
(* Auth configuration *)

AuthSettingsValues ==
    { NoneVal,
      Some([required_scopes |-> NoneVal]),
      Some([required_scopes |-> Some(<<"x">>)]) }

\* setup_auth_middleware_and_routes with the check of auth_settings left out
setup_auth_unchecked(auth_server_provider, auth_settings) ==
    IF auth_server_provider
    THEN [raised |-> FALSE,
          middleware |-> <<AuthenticationStage, AuthContextStage>>,
          auth_routes |-> create_auth_routes,
          required_scopes |->
              IF IsNone(auth_settings) THEN <<>>
              ELSE OrEmpty(Val(auth_settings).required_scopes)]
    ELSE [raised |-> FALSE, middleware |-> <<>>, auth_routes |-> <<>>,
          required_scopes |-> <<>>]

\* setup_auth_middleware_and_routes deciding on auth_settings, not the provider
setup_auth_on_settings(auth_server_provider, auth_settings) ==
    IF ~IsNone(auth_settings)
    THEN [raised |-> FALSE,
          middleware |-> <<AuthenticationStage, AuthContextStage>>,
          auth_routes |-> create_auth_routes,
          required_scopes |-> OrEmpty(Val(auth_settings).required_scopes)]
    ELSE [raised |-> auth_server_provider, middleware |-> <<>>,
          auth_routes |-> <<>>, required_scopes |-> <<>>]

\* setup_auth_middleware_and_routes: raised is the ValueError
setup_auth_middleware_and_routes(auth_server_provider, auth_settings) ==
    IF auth_server_provider
    THEN IF IsNone(auth_settings)
         THEN [raised |-> TRUE, middleware |-> <<>>, auth_routes |-> <<>>,
               required_scopes |-> <<>>]
         ELSE [raised |-> FALSE,
               middleware |-> <<AuthenticationStage, AuthContextStage>>,
               auth_routes |-> create_auth_routes,
               required_scopes |-> OrEmpty(Val(auth_settings).required_scopes)]
    ELSE [raised |-> FALSE, middleware |-> <<>>, auth_routes |-> <<>>,
          required_scopes |-> <<>>]

----------------------------------------------------------------------------
(* The application *)

\* Starlette(routes, middleware, lifespan): the application keeps its own copy
\* of the middleware list
Starlette(kind, routes, middleware, lifespan, provider, settings) ==
    [kind |-> kind, routes |-> routes, user_middleware |-> middleware,
     lifespan |-> lifespan,
     auth_server_provider |-> provider, auth_settings_given |-> ~IsNone(settings)]

\* create_base_app that adds no RequestContextMiddleware
create_base_app_bare(kind, routes, middleware, lifespan, provider, settings) ==
    [app |-> Starlette(kind, routes, middleware, lifespan, provider, settings),
     list |-> middleware]

\* create_base_app: appends to the list it is given, then builds; list is the
\* given list object after the call
create_base_app(kind, routes, middleware, lifespan, provider, settings) ==
    LET appended == Append(middleware, RequestContextStage)
    IN [app |-> Starlette(kind, routes, appended, lifespan, provider, settings),
        list |-> appended]

\* create_sse_app's routes with the wrapper left off the message mount
SseRoutesMessageOpen(auth_server_provider, required_scopes) ==
    IF auth_server_provider
    THEN << MkRoute(sse_path, {"GET"}, "handle_sse", TRUE, required_scopes),
            MkRoute(message_path, AnyMethod, "handle_post_message", FALSE, <<>>) >>
    ELSE << MkRoute(sse_path, {"GET"}, "handle_sse", FALSE, <<>>),
            MkRoute(message_path, AnyMethod, "handle_post_message", FALSE, <<>>) >>

\* the SSE route and the message mount of create_sse_app
SseRoutes(auth_server_provider, required_scopes) ==
    IF auth_server_provider
    THEN << MkRoute(sse_path, {"GET"}, "handle_sse", TRUE, required_scopes),
            MkRoute(message_path, AnyMethod, "handle_post_message", TRUE,
                    required_scopes) >>
    ELSE << MkRoute(sse_path, {"GET"}, "handle_sse", FALSE, <<>>),
            MkRoute(message_path, AnyMethod, "handle_post_message", FALSE, <<>>) >>

\* the mount of create_streamable_http_app
StreamableHttpRoutes(auth_server_provider, required_scopes) ==
    IF auth_server_provider
    THEN << MkRoute(streamable_http_path, AnyMethod, "handle_streamable_http",
                    TRUE, required_scopes) >>
    ELSE << MkRoute(streamable_http_path, AnyMethod, "handle_streamable_http",
                    FALSE, <<>>) >>

\* server_routes with the caller's routes put first
ServerRoutesUserFirst(auth, own, routes) ==
    (IF Truthy(routes) THEN Val(routes) ELSE <<>>) \o auth.auth_routes \o own

\* server_middleware with the caller's stages put before the auth stages
ServerMiddlewareUserFirst(auth, middleware) ==
    (IF Truthy(middleware) THEN Val(middleware) ELSE <<>>) \o auth.middleware

\* what create_sse_app and create_streamable_http_app hand to create_base_app
ServerRoutes(auth, own, routes) ==
    auth.auth_routes \o own \o (IF Truthy(routes) THEN Val(routes) ELSE <<>>)

ServerMiddleware(auth, middleware) ==
    auth.middleware \o (IF Truthy(middleware) THEN Val(middleware) ELSE <<>>)

----------------------------------------------------------------------------
(* The session manager *)

\* the defaults of create_streamable_http_app: event_store=None,
\* json_response=False, stateless_http=False
DefaultMode == [event_store |-> FALSE, json_response |-> FALSE, stateless |-> FALSE]

Modes ==
    { DefaultMode,
      [event_store |-> TRUE, json_response |-> FALSE, stateless |-> FALSE],
      [event_store |-> FALSE, json_response |-> TRUE, stateless |-> TRUE] }

\* StreamableHTTPSessionManager(app, event_store, json_response, stateless)
StreamableHTTPSessionManager(mode) ==
    [mode |-> mode, has_started |-> FALSE, running |-> FALSE,
     run_calls |-> 0, run_entered |-> 0, run_exited |-> 0]

\* the check-and-set that sets an existing manager up anew with the call's values
EnsureManagerReconfigure(sm, ms, mode) ==
    IF sm = 0
    THEN [session_manager |-> Len(ms) + 1,
          managers |-> Append(ms, StreamableHTTPSessionManager(mode))]
    ELSE [session_manager |-> sm, managers |-> [ms EXCEPT ![sm].mode = mode]]

\* the check-and-set at the head of create_streamable_http_app, without the check
EnsureManagerAlways(sm, ms, mode) ==
    [session_manager |-> Len(ms) + 1,
     managers |-> Append(ms, StreamableHTTPSessionManager(mode))]

\* the check-and-set at the head of create_streamable_http_app
EnsureManager(sm, ms, mode) ==
    IF sm = 0
    THEN [session_manager |-> Len(ms) + 1,
          managers |-> Append(ms, StreamableHTTPSessionManager(mode))]
    ELSE [session_manager |-> sm, managers |-> ms]

----------------------------------------------------------------------------
(* Build calls *)

\* what the auth gate returns when it is not asked or has nothing to add
NoAuth ==
    [raised |-> FALSE, middleware |-> <<>>, auth_routes |-> <<>>,
     required_scopes |-> <<>>]

NoBuild ==
    [fn |-> "none", auth_server_provider |-> FALSE, auth_settings_given |-> FALSE,
     auth |-> NoAuth, raised |-> FALSE, app |-> 0, started_before |-> FALSE,
     started_after |-> FALSE, mode |-> NoneVal, constructed |-> FALSE,
     manager_before |-> 0, middleware |-> <<>>]

AnyRunning(ms) == \E i \in DOMAIN ms : ms[i].running

BuildRecord(fn, provider, settings, auth, app, ms) ==
    [fn |-> fn, auth_server_provider |-> provider,
     auth_settings_given |-> ~IsNone(settings), auth |-> auth,
     raised |-> auth.raised, app |-> app,
     started_before |-> AnyRunning(managers), started_after |-> AnyRunning(ms),
     mode |-> NoneVal, constructed |-> Len(ms) > Len(managers),
     manager_before |-> session_manager, middleware |-> <<>>]

NewLifespan == [state |-> "idle", run_open |-> FALSE, request_raised |-> FALSE]

\* a caller's direct call of create_base_app with its own list
CreateBaseApp(limit, routes) ==
    /\ Len(apps) < limit
    /\ LET r == create_base_app("base", OrEmpty(routes), callerMw, FALSE,
                                FALSE, NoneVal)
       IN /\ apps' = Append(apps, r.app)
          /\ callerMw' = r.list
          /\ lastBuild' = [BuildRecord("create_base_app", FALSE, NoneVal, NoAuth,
                                       Len(apps) + 1, managers)
                           EXCEPT !.middleware = callerMw]
    /\ lifespans' = Append(lifespans, NewLifespan)
    /\ UNCHANGED <<session_manager, managers, tasks, ctx, frames, obs,
                   connections>>

\* create_sse_app(server, message_path, sse_path, auth_server_provider,
\*                auth_settings, debug, routes, middleware)
CreateSseApp(limit, provider, settings, routes, middleware) ==
    /\ Len(apps) < limit
    /\ LET auth == setup_auth_middleware_and_routes(provider, settings)
       IN IF auth.raised
          THEN /\ lastBuild' = [BuildRecord("create_sse_app", provider, settings,
                                            auth, 0, managers)
                                   EXCEPT !.middleware = OrEmpty(middleware)]
               /\ UNCHANGED <<apps, lifespans>>
          ELSE LET r == create_base_app(
                          "sse",
                          ServerRoutes(auth, SseRoutes(provider, auth.required_scopes),
                                       routes),
                          ServerMiddleware(auth, middleware),
                          FALSE, provider, settings)
               IN /\ apps' = Append(apps, r.app)
                  /\ lifespans' = Append(lifespans, NewLifespan)
                  /\ lastBuild' = [BuildRecord("create_sse_app", provider, settings,
                                               auth, Len(apps) + 1, managers)
                                      EXCEPT !.middleware = OrEmpty(middleware)]
    /\ UNCHANGED <<session_manager, managers, callerMw, tasks, ctx, frames, obs,
                   connections>>

\* create_streamable_http_app(server, streamable_http_path, event_store,
\*     auth_server_provider, auth_settings, json_response, stateless_http, debug,
\*     routes, middleware)
CreateStreamableHttpApp(limit, mode, provider, settings, routes, middleware) ==
    /\ Len(apps) < limit
    /\ LET sm == EnsureManager(session_manager, managers, mode)
           auth == setup_auth_middleware_and_routes(provider, settings)
       IN /\ session_manager' = sm.session_manager
          /\ managers' = sm.managers
          /\ IF auth.raised
             THEN /\ lastBuild' = [BuildRecord("create_streamable_http_app", provider,
                                               settings, auth, 0, sm.managers)
                                   EXCEPT !.mode = Some(mode),
                                          !.middleware = OrEmpty(middleware)]
                  /\ UNCHANGED <<apps, lifespans>>
             ELSE LET r == create_base_app(
                             "streamable_http",
                             ServerRoutes(auth,
                                 StreamableHttpRoutes(provider, auth.required_scopes),
                                 routes),
                             ServerMiddleware(auth, middleware),
                             TRUE, provider, settings)
                  IN /\ apps' = Append(apps, r.app)
                     /\ lifespans' = Append(lifespans, NewLifespan)
                     /\ lastBuild' = [BuildRecord("create_streamable_http_app",
                                                  provider, settings, auth,
                                                  Len(apps) + 1, sm.managers)
                                      EXCEPT !.mode = Some(mode),
                                          !.middleware = OrEmpty(middleware)]
    /\ UNCHANGED <<callerMw, tasks, ctx, frames, obs, connections>>

MiddlewareArgs == {NoneVal, Some(callerMw)}

Build(limit) ==
    \/ \E routes \in RouteArgs : CreateBaseApp(limit, routes)
    \/ \E provider \in BOOLEAN, settings \in AuthSettingsValues,
          routes \in RouteArgs, middleware \in MiddlewareArgs :
            CreateSseApp(limit, provider, settings, routes, middleware)
    \/ \E provider \in BOOLEAN, settings \in AuthSettingsValues,
          routes \in RouteArgs, middleware \in MiddlewareArgs :
            CreateStreamableHttpApp(limit, DefaultMode, provider, settings, routes,
                                    middleware)

\* create_streamable_http_app calls with every mode and auth configuration
BuildModes(limit) ==
    \E mode \in Modes, provider \in BOOLEAN, settings \in AuthSettingsValues :
        CreateStreamableHttpApp(limit, mode, provider, settings, NoneVal, NoneVal)

----------------------------------------------------------------------------
(* The context variable _current_http_request, one value per task context *)

\* _current_http_request.get()
CurrentRequest(c, t) == c[t]

\* _current_http_request.set(request) writing one cell shared by all tasks
ContextVarSetGlobal(c, t, request) == [u \in DOMAIN c |-> Some(request)]

\* _current_http_request.set(request) that binds nothing
ContextVarSetNothing(c, t, request) == c

\* _current_http_request.set(request); the token is the value before, c[t]
ContextVarSet(c, t, request) == [c EXCEPT ![t] = Some(request)]

\* _current_http_request.reset(token) that clears instead of restoring
ContextVarResetToNone(c, t, token) == [c EXCEPT ![t] = NoneVal]

\* _current_http_request.reset(token)
ContextVarReset(c, t, token) == [c EXCEPT ![t] = token]

\* Request(scope): a new object on every call, named by task and nesting depth
Request(t, fs) == [task |-> t, depth |-> Len(fs[t]) + 1]

\* RequestContextMiddleware.__call__ up to the await: binds for http only
RequestContextEnter(c, fs, t, type) ==
    IF type = "http"
    THEN [ctx |-> ContextVarSet(c, t, Request(t, fs)),
          frames |-> [fs EXCEPT ![t] = Append(@,
                        [http |-> TRUE, request |-> Some(Request(t, fs)),
                         token |-> c[t]])]]
    ELSE [ctx |-> c,
          frames |-> [fs EXCEPT ![t] = Append(@,
                        [http |-> FALSE, request |-> NoneVal, token |-> NoneVal])]]

\* RequestContextMiddleware.__call__ after the await, on return and on raise:
\* the finally of set_http_request
RequestContextExit(c, fs, t) ==
    LET f == fs[t][Len(fs[t])]
    IN [ctx |-> IF f.http THEN ContextVarReset(c, t, f.token) ELSE c,
        frames |-> [fs EXCEPT ![t] = SubSeq(@, 1, Len(@) - 1)]]

\* the request of the innermost open http call of a task, None without one
RECURSIVE InnermostBound(_)
InnermostBound(fr) ==
    IF fr = <<>> THEN NoneVal
    ELSE IF fr[Len(fr)].http THEN fr[Len(fr)].request
    ELSE InnermostBound(SubSeq(fr, 1, Len(fr) - 1))

----------------------------------------------------------------------------
(* The lifespan of an application under its host server *)

\* session_manager.run() entered: StreamableHTTPSessionManager.run() may be
\* entered once per instance and raises on any later call
RunEnter(m) ==
    IF m.has_started
    THEN [m EXCEPT !.run_calls = @ + 1]
    ELSE [m EXCEPT !.run_calls = @ + 1, !.has_started = TRUE, !.running = TRUE,
                   !.run_entered = @ + 1]

\* leaving `async with server.session_manager.run()`: the manager's stop sequence
RunExit(m) == [m EXCEPT !.running = FALSE, !.run_exited = @ + 1]

\* a lifespan hook that never enters session_manager.run()
lifespan_enter_nothing(ms, sm) == ms

\* lifespan(app) up to its yield: enters server.session_manager.run()
lifespan_enter(ms, sm) == [ms EXCEPT ![sm] = RunEnter(@)]

\* a lifespan hook that leaves without the manager's stop sequence
lifespan_exit_nothing(ms, sm) == ms

\* lifespan(app) after its yield: leaves server.session_manager.run()
lifespan_exit(ms, sm) == [ms EXCEPT ![sm] = RunExit(@)]

InFlight(a) == {t \in Tasks : tasks[t].pc # "idle" /\ tasks[t].app = a}

\* the host sends lifespan.startup before it serves any request of the application
Startup(a) ==
    /\ a \in DOMAIN apps
    /\ lifespans[a].state \in {"idle", "stopped"}
    /\ IF apps[a].lifespan
       THEN LET refused == managers[session_manager].has_started
                entered == lifespan_enter(managers, session_manager)
            IN /\ managers' = entered
               /\ lifespans' = [lifespans EXCEPT
                     ![a].state = IF refused THEN "failed" ELSE "serving",
                     ![a].run_open = ~refused /\ entered[session_manager].running]
       ELSE /\ lifespans' = [lifespans EXCEPT ![a].state = "serving"]
            /\ UNCHANGED managers
    /\ UNCHANGED <<session_manager, apps, callerMw, lastBuild, tasks, ctx,
                   frames, obs, connections>>

\* the host stops accepting requests for the application
BeginShutdown(a) ==
    /\ a \in DOMAIN apps
    /\ lifespans[a].state = "serving"
    /\ lifespans' = [lifespans EXCEPT ![a].state = "draining"]
    /\ UNCHANGED <<session_manager, managers, apps, callerMw, lastBuild, tasks,
                   ctx, frames, obs, connections>>

\* the host has waited for the handling tasks and sends lifespan.shutdown
Shutdown(a) ==
    /\ a \in DOMAIN apps
    /\ lifespans[a].state = "draining"
    /\ InFlight(a) = {}
    /\ managers' = IF lifespans[a].run_open
                   THEN lifespan_exit(managers, session_manager)
                   ELSE managers
    /\ lifespans' = [lifespans EXCEPT ![a].state = "stopped", ![a].run_open = FALSE]
    /\ UNCHANGED <<session_manager, apps, callerMw, lastBuild, tasks, ctx,
                   frames, obs, connections>>

----------------------------------------------------------------------------
(* One HTTP request through a built application *)

IdleTask ==
    [pc |-> "idle", app |-> 0, path |-> "", method |-> "", token |-> "none",
     pos |-> 0, entered |-> <<>>, exited |-> <<>>, user |-> "none",
     scopes |-> {}, route |-> 0, endpoint |-> "none", outcome |-> "none",
     manager |-> 0, manager_started |-> FALSE, seen_at_check |-> NoneVal,
     raising |-> FALSE, left_by_raise |-> NoneVal,
     conn |-> 0, leaving |-> "none"]

Paths == {sse_path, message_path, streamable_http_path, auth_path, user_path}
Methods == {"GET", "POST"}
\* no Authorization header, a token the provider does not know, a valid token
\* without scope x, a valid token with scope x
Tokens == {"none", "invalid", "valid", "valid_x"}

\* BearerAuthBackend.authenticate under AuthenticationMiddleware
AuthUser(token) ==
    IF token \in {"valid", "valid_x"} THEN "authenticated" ELSE "unauthenticated"
AuthScopes(token) == IF token = "valid_x" THEN {"x"} ELSE {}

\* Route.matches / Mount.matches
Match(route, path, method) ==
    IF route.path # path THEN "NONE"
    ELSE IF method \in route.methods THEN "FULL" ELSE "PARTIAL"

\* Router: the first full match, else the first partial match, else none
Dispatch(routes, path, method) ==
    LET full == {i \in DOMAIN routes : Match(routes[i], path, method) = "FULL"}
        part == {i \in DOMAIN routes : Match(routes[i], path, method) = "PARTIAL"}
        Min(S) == CHOOSE i \in S : \A j \in S : i <= j
    IN IF full # {} THEN [index |-> Min(full), match |-> "FULL"]
       ELSE IF part # {} THEN [index |-> Min(part), match |-> "PARTIAL"]
       ELSE [index |-> 0, match |-> "NONE"]

\* RequireAuthMiddleware that asks for an authenticated user only, no scope
RequireAuthUserOnly(user, scopes, required_scopes) ==
    IF user # "authenticated" THEN 401 ELSE 0

\* RequireAuthMiddleware(app, required_scopes).__call__: 0 passes
RequireAuth(user, scopes, required_scopes) ==
    IF user # "authenticated" THEN 401
    ELSE IF \E i \in DOMAIN required_scopes : required_scopes[i] \notin scopes
         THEN 403
         ELSE 0

\* the host hands a request to a serving application in a new task
Arrive(t, a, path, method, token) ==
    /\ tasks[t].pc = "idle"
    /\ a \in DOMAIN apps
    /\ lifespans[a].state = "serving"
    /\ tasks' = [tasks EXCEPT ![t] =
                   [IdleTask EXCEPT !.pc = "down", !.app = a, !.path = path,
                                    !.method = method, !.token = token]]
    /\ ctx' = [ctx EXCEPT ![t] = NoneVal]
    /\ frames' = [frames EXCEPT ![t] = <<>>]
    /\ UNCHANGED <<session_manager, managers, apps, callerMw, lastBuild,
                   lifespans, obs, connections>>

\* the next stage of the application's middleware list is called: the list's
\* first stage is the outermost
EnterStage(t) ==
    LET k == tasks[t]
        mw == apps[k.app].user_middleware
        stage == mw[k.pos + 1]
    IN /\ k.pc = "down"
       /\ k.pos < Len(mw)
       /\ tasks' = [tasks EXCEPT
             ![t].pos = k.pos + 1,
             ![t].entered = Append(k.entered, stage),
             ![t].user = IF stage = AuthenticationStage THEN AuthUser(k.token)
                         ELSE k.user,
             ![t].scopes = IF stage = AuthenticationStage THEN AuthScopes(k.token)
                           ELSE k.scopes]
       /\ IF stage = RequestContextStage
          THEN LET r == RequestContextEnter(ctx, frames, t, "http")
               IN ctx' = r.ctx /\ frames' = r.frames
          ELSE UNCHANGED <<ctx, frames>>
       /\ UNCHANGED <<session_manager, managers, apps, callerMw, lastBuild,
                      lifespans, obs, connections>>

\* the router picks the route; RequireAuthMiddleware, where the route has one,
\* rejects or passes; the endpoint is entered
Route(t) ==
    LET k == tasks[t]
        a == apps[k.app]
        d == Dispatch(a.routes, k.path, k.method)
        r == a.routes[d.index]
        verdict == IF r.require_auth
                   THEN RequireAuth(k.user, k.scopes, r.required_scopes) ELSE 0
    IN /\ k.pc = "down"
       /\ k.pos = Len(a.user_middleware)
       /\ tasks' = [tasks EXCEPT ![t] =
            IF d.match = "NONE"
            THEN [k EXCEPT !.pc = "up", !.outcome = "404"]
            ELSE IF d.match = "PARTIAL"
            THEN [k EXCEPT !.pc = "up", !.outcome = "405", !.route = d.index]
            ELSE IF verdict # 0
            THEN [k EXCEPT !.pc = "up", !.route = d.index,
                           !.outcome = IF verdict = 401 THEN "401" ELSE "403",
                           !.seen_at_check = CurrentRequest(ctx, t)]
            ELSE [k EXCEPT !.pc = "endpoint", !.route = d.index,
                           !.endpoint = r.endpoint,
                           !.seen_at_check = CurrentRequest(ctx, t),
                           !.manager = IF r.endpoint = "handle_streamable_http"
                                       THEN session_manager ELSE 0,
                           !.manager_started =
                               /\ r.endpoint = "handle_streamable_http"
                               /\ session_manager # 0
                               /\ managers[session_manager].run_entered >= 1]]
       /\ UNCHANGED <<session_manager, managers, apps, callerMw, lastBuild,
                      lifespans, ctx, frames, obs, connections>>

\* the endpoints whose bodies are followed step by step further down
SseEndpoints == {"handle_sse", "handle_post_message"}

\* the endpoint returns
EndpointReturn(t) ==
    /\ tasks[t].pc = "endpoint"
    /\ tasks[t].endpoint \notin SseEndpoints
    /\ tasks' = [tasks EXCEPT ![t].pc = "up", ![t].outcome = "ok"]
    /\ UNCHANGED <<session_manager, managers, apps, callerMw, lastBuild,
                   lifespans, ctx, frames, obs, connections>>

\* the endpoint raises; the exception passes up through every stage
EndpointRaise(t) ==
    /\ tasks[t].pc = "endpoint"
    /\ tasks[t].endpoint \notin SseEndpoints
    /\ tasks' = [tasks EXCEPT ![t].pc = "up", ![t].outcome = "raised",
                              ![t].raising = TRUE]
    /\ lifespans' = [lifespans EXCEPT ![tasks[t].app].request_raised = TRUE]
    /\ UNCHANGED <<session_manager, managers, apps, callerMw, lastBuild, ctx,
                   frames, obs, connections>>

\* the innermost entered stage is left, by return or by the passing exception
ExitStage(t) ==
    LET k == tasks[t]
        stage == apps[k.app].user_middleware[k.pos]
    IN /\ k.pc = "up"
       /\ k.pos > 0
       /\ tasks' = [tasks EXCEPT ![t].pos = k.pos - 1,
                                 ![t].exited = Append(k.exited, stage)]
       /\ IF stage = RequestContextStage
          THEN LET r == RequestContextExit(ctx, frames, t)
               IN ctx' = r.ctx /\ frames' = r.frames
          ELSE UNCHANGED <<ctx, frames>>
       /\ UNCHANGED <<session_manager, managers, apps, callerMw, lastBuild,
                      lifespans, obs, connections>>

\* the handling task ends
Finish(t) ==
    /\ tasks[t].pc = "up"
    /\ tasks[t].pos = 0
    /\ tasks' = [tasks EXCEPT ![t] = IdleTask]
    /\ UNCHANGED <<session_manager, managers, apps, callerMw, lastBuild,
                   lifespans, ctx, frames, obs, connections>>

----------------------------------------------------------------------------
(* The SSE binding: handle_sse and the message endpoint of one SseServerTransport *)

\* sse.connect_sse entered: a pair of streams for one session, handed to
\* server._mcp_server.run, which the handling task awaits
ConnectSse ==
    [state |-> "connected", read_open |-> TRUE, write_open |-> TRUE,
     core |-> "running", late |-> FALSE]

\* the ways `await server._mcp_server.run(...)` ends: the core returns, the task
\* is cancelled (client disconnect, server shutdown), a stream fails
CoreEndings == {"completed", "cancelled", "failed"}

\* a handle_sse that releases the streams only behind a returning core
ConnectSseExitOnReturn(conn, cause) ==
    IF cause = "completed"
    THEN [conn EXCEPT !.state = "closed", !.read_open = FALSE, !.write_open = FALSE]
    ELSE [conn EXCEPT !.state = "closed"]

\* leaving `async with sse.connect_sse(...)`, by return or by exception
ConnectSseExit(conn, cause) ==
    [conn EXCEPT !.state = "closed", !.read_open = FALSE, !.write_open = FALSE]

\* handle_sse up to its await: the connection is opened
SseConnect(t, limit) ==
    /\ tasks[t].pc = "endpoint"
    /\ tasks[t].endpoint = "handle_sse"
    /\ tasks[t].conn = 0
    /\ Len(connections) < limit
    /\ connections' = Append(connections, ConnectSse)
    /\ tasks' = [tasks EXCEPT ![t].conn = Len(connections) + 1]
    /\ UNCHANGED <<session_manager, managers, apps, callerMw, lastBuild, lifespans,
                   ctx, frames, obs>>

\* the await of server._mcp_server.run ends: the core's loop is over
CoreEnds(t, cause) ==
    /\ tasks[t].pc = "endpoint"
    /\ tasks[t].conn # 0
    /\ tasks[t].leaving = "none"
    /\ connections[tasks[t].conn].core = "running"
    /\ connections' = [connections EXCEPT ![tasks[t].conn].core = "done"]
    /\ tasks' = [tasks EXCEPT ![t].leaving = cause]
    /\ UNCHANGED <<session_manager, managers, apps, callerMw, lastBuild, lifespans,
                   ctx, frames, obs>>

\* handle_sse after its await: the `async with` is left, then Response() is
\* returned or the exception passes on
SseDisconnect(t) ==
    LET k == tasks[t]
    IN /\ k.pc = "endpoint"
       /\ k.conn # 0
       /\ k.leaving # "none"
       /\ connections' = [connections EXCEPT
             ![k.conn] = ConnectSseExit(@, k.leaving)]
       /\ tasks' = [tasks EXCEPT
             ![t].pc = "up",
             ![t].outcome = IF k.leaving = "completed" THEN "ok" ELSE "raised",
             ![t].raising = k.leaving # "completed"]
       /\ lifespans' = [lifespans EXCEPT
             ![k.app].request_raised = @ \/ k.leaving = "failed"]
       /\ UNCHANGED <<session_manager, managers, apps, callerMw, lastBuild, ctx,
                      frames, obs>>

\* sse.handle_post_message for the session the request names (0: none it knows):
\* the message is written to the session's inbound stream while that is open;
\* late records a message that went to a session already closed
PostMessage(t, session) ==
    LET k == tasks[t]
    IN /\ k.pc = "endpoint"
       /\ k.endpoint = "handle_post_message"
       /\ IF session \notin DOMAIN connections
          THEN /\ tasks' = [tasks EXCEPT ![t].pc = "up", ![t].outcome = "404"]
               /\ UNCHANGED connections
          ELSE IF connections[session].read_open
          THEN /\ connections' = [connections EXCEPT
                     ![session].late = @ \/ connections[session].state = "closed"]
               /\ tasks' = [tasks EXCEPT ![t].pc = "up", ![t].outcome = "ok"]
          ELSE /\ \E o \in {"404", "raised"} :
                    tasks' = [tasks EXCEPT ![t].pc = "up", ![t].outcome = o,
                                           ![t].raising = (o = "raised")]
               /\ UNCHANGED connections
       /\ UNCHANGED <<session_manager, managers, apps, callerMw, lastBuild,
                      lifespans, ctx, frames, obs>>

----------------------------------------------------------------------------
(* SpecCtx: tasks calling RequestContextMiddleware, nested, returning and raising *)

ScopeTypes == {"http", "websocket"}

\* a task calls the middleware with a scope of the given type
Call(t, type) ==
    /\ ~tasks[t].raising
    /\ Len(frames[t]) < MaxDepth
    /\ LET r == RequestContextEnter(ctx, frames, t, type)
       IN ctx' = r.ctx /\ frames' = r.frames
    /\ obs' = [obs EXCEPT ![t] = NoneVal]
    /\ UNCHANGED <<session_manager, managers, apps, callerMw, lastBuild,
                   lifespans, tasks, connections>>

\* code running in the task reads the current request
Get(t) ==
    /\ ~tasks[t].raising
    /\ obs' = [obs EXCEPT ![t] =
                 Some([seen |-> CurrentRequest(ctx, t),
                       inside |-> InnermostBound(frames[t]),
                       open |-> Cardinality({i \in DOMAIN frames[t] :
                                                frames[t][i].http})])]
    /\ UNCHANGED <<session_manager, managers, apps, callerMw, lastBuild,
                   lifespans, tasks, ctx, frames, connections>>

\* the wrapped application returns
Return(t) ==
    /\ ~tasks[t].raising
    /\ frames[t] # <<>>
    /\ LET r == RequestContextExit(ctx, frames, t)
       IN ctx' = r.ctx /\ frames' = r.frames
    /\ obs' = [obs EXCEPT ![t] = NoneVal]
    /\ UNCHANGED <<session_manager, managers, apps, callerMw, lastBuild,
                   lifespans, tasks, connections>>

\* the wrapped application raises, or an exception passes through from below
Raise(t) ==
    /\ frames[t] # <<>>
    /\ LET r == RequestContextExit(ctx, frames, t)
       IN ctx' = r.ctx /\ frames' = r.frames
    /\ tasks' = [tasks EXCEPT ![t].raising = TRUE,
                              ![t].left_by_raise = frames[t][Len(frames[t])].request]
    /\ obs' = [obs EXCEPT ![t] = NoneVal]
    /\ UNCHANGED <<session_manager, managers, apps, callerMw, lastBuild,
                   lifespans, connections>>

\* the exception is handled by the code around the call
Handle(t) ==
    /\ tasks[t].raising
    /\ tasks' = [tasks EXCEPT ![t].raising = FALSE, ![t].left_by_raise = NoneVal]
    /\ obs' = [obs EXCEPT ![t] = NoneVal]
    /\ UNCHANGED <<session_manager, managers, apps, callerMw, lastBuild,
                   lifespans, ctx, frames, connections>>

NextCtx ==
    \E t \in Tasks :
        \/ \E type \in ScopeTypes : Call(t, type)
        \/ Get(t)
        \/ Return(t)
        \/ Raise(t)
        \/ Handle(t)

----------------------------------------------------------------------------
(* Initial state: a server with no session manager, nothing built, no task *)

Init ==
    /\ session_manager = 0
    /\ managers = <<>>
    /\ apps = <<>>
    /\ callerMw \in UserMwLists
    /\ lastBuild = NoBuild
    /\ lifespans = <<>>
    /\ tasks = [t \in Tasks |-> IdleTask]
    /\ ctx = [t \in Tasks |-> NoneVal]
    /\ frames = [t \in Tasks |-> <<>>]
    /\ obs = [t \in Tasks |-> NoneVal]
    /\ connections = <<>>

(* SpecBuild: any sequence of build calls against one server *)

NextBuild == Build(MaxApps)

SpecBuild == Init /\ [][NextBuild]_vars

(* SpecMode: any sequence of create_streamable_http_app calls against one server,
   with every mode, with and without auth, failing ones included *)

NextMode == BuildModes(MaxApps)

\* these builds pass no middleware list
InitMode == Init /\ callerMw = <<>>

SpecMode == InitMode /\ [][NextMode]_vars

\* the caller's middleware list plays no part here
InitCtx == Init /\ callerMw = <<>>

SpecCtx == InitCtx /\ [][NextCtx]_vars

(* SpecServe: one application is built, started, and serves one request at a
   time, for every configuration and every request *)

NextServe ==
    \/ Build(1)
    \/ Startup(1)
    \/ BeginShutdown(1)
    \/ Shutdown(1)
    \/ \E path \in Paths, method \in Methods, token \in Tokens :
          Arrive(1, 1, path, method, token)
    \/ EnterStage(1)
    \/ Route(1)
    \/ EndpointReturn(1)
    \/ EndpointRaise(1)
    \/ SseConnect(1, 1)
    \/ \E cause \in CoreEndings : CoreEnds(1, cause)
    \/ SseDisconnect(1)
    \/ \E session \in 0..1 : PostMessage(1, session)
    \/ ExitStage(1)
    \/ Finish(1)

SpecServe == Init /\ [][NextServe]_vars

(* SpecLife: streamable-HTTP applications built against one server, started and
   shut down by their hosts, serving concurrent requests to the mount *)

BuildLife(limit) ==
    \E provider \in BOOLEAN :
        CreateStreamableHttpApp(limit, DefaultMode, provider, NoneVal, NoneVal,
                                NoneVal)

NextLife ==
    \/ BuildLife(MaxApps)
    \/ \E a \in 1..MaxApps : Startup(a) \/ BeginShutdown(a) \/ Shutdown(a)
    \/ \E t \in Tasks :
          \/ \E a \in 1..MaxApps : Arrive(t, a, streamable_http_path, "POST", "none")
          \/ EnterStage(t)
          \/ Route(t)
          \/ EndpointReturn(t)
          \/ EndpointRaise(t)
          \/ ExitStage(t)
          \/ Finish(t)

\* these builds pass no middleware list
InitLife == Init /\ callerMw = <<>>

SpecLife == InitLife /\ [][NextLife]_vars

\* the event loop runs every ready task, and the host, once it has begun to shut
\* an application down, sends lifespan.shutdown when its tasks are done
LifeFairness ==
    /\ \A t \in Tasks :
          WF_vars(EnterStage(t) \/ Route(t) \/ EndpointReturn(t) \/ EndpointRaise(t)
                  \/ ExitStage(t) \/ Finish(t))
    /\ \A a \in 1..MaxApps : WF_vars(Shutdown(a))

SpecLifeFair == InitLife /\ [][NextLife]_vars /\ LifeFairness

(* SpecSse: one SSE application without auth, its connections and the messages
   posted to their sessions by concurrent requests *)

BuildSse == CreateSseApp(1, FALSE, NoneVal, NoneVal, NoneVal)

NextSse ==
    \/ BuildSse
    \/ Startup(1)
    \/ \E t \in Tasks :
          \/ Arrive(t, 1, sse_path, "GET", "none")
          \/ Arrive(t, 1, message_path, "POST", "none")
          \/ EnterStage(t)
          \/ Route(t)
          \/ SseConnect(t, MaxConns)
          \/ \E cause \in CoreEndings : CoreEnds(t, cause)
          \/ SseDisconnect(t)
          \/ \E session \in 0..MaxConns : PostMessage(t, session)
          \/ ExitStage(t)
          \/ Finish(t)

\* these builds pass no middleware list
InitSse == Init /\ callerMw = <<>>

SpecSse == InitSse /\ [][NextSse]_vars

\* the event loop runs every ready task; how long a core runs is up to the client
SseFairness ==
    \A t \in Tasks :
        WF_vars(EnterStage(t) \/ Route(t) \/ SseDisconnect(t) \/ ExitStage(t)
                \/ Finish(t))

SpecSseFair == InitSse /\ [][NextSse]_vars /\ SseFairness

----------------------------------------------------------------------------
(* Claims about the request context, checked under SpecCtx *)

\* C3: currentRequest() called inside the extent of set_http_request(R) returns
\* exactly R, the request of the innermost open http call; called by a task that
\* is outside any scope it returns None.
CurrentRequestIsBoundRequest ==
    \A t \in Tasks :
        ~IsNone(obs[t]) =>
            IF Val(obs[t]).open = 0
            THEN IsNone(Val(obs[t]).seen)
            ELSE /\ ~IsNone(Val(obs[t]).seen)
                 /\ Val(obs[t]).seen = Val(obs[t]).inside

\* a task has read the current request inside a scope and got a request
SeenInsideScope ==
    \E t \in Tasks :
        /\ ~IsNone(obs[t])
        /\ Val(obs[t]).open > 0
        /\ ~IsNone(Val(obs[t]).seen)
        /\ Val(obs[t]).seen = Val(obs[t]).inside

\* C4: after any sequence of properly nested enters and exits, by return or by
\* raise, the ambient value of a task is the request bound by its innermost
\* still-open scope, and None when no scope is open.
ScopeExitRestores ==
    \A t \in Tasks : ctx[t] = InnermostBound(frames[t])

\* an inner scope was left by a raise and the outer scope's request is back
RestoredAfterRaise ==
    \E t \in Tasks :
        /\ tasks[t].raising
        /\ ~IsNone(tasks[t].left_by_raise)
        /\ Len(frames[t]) = 1
        /\ frames[t][1].http
        /\ ctx[t] = frames[t][1].request
        /\ ctx[t] # tasks[t].left_by_raise

\* C5: a task never observes a request bound by another task: whatever a task's
\* context holds, and whatever it has read, is a request of its own.
TasksAreIsolated ==
    \A t \in Tasks :
        /\ ~IsNone(ctx[t]) => Val(ctx[t]).task = t
        /\ (~IsNone(obs[t]) /\ ~IsNone(Val(obs[t]).seen)) =>
               Val(Val(obs[t]).seen).task = t
        /\ (frames[t] = <<>>) => IsNone(ctx[t])

\* two tasks hold different requests at once and one has just read its own
TwoTasksBound ==
    \E t, u \in Tasks :
        /\ t # u
        /\ ~IsNone(ctx[t]) /\ ~IsNone(ctx[u])
        /\ Val(ctx[t]).task = t /\ Val(ctx[u]).task = u
        /\ ~IsNone(obs[t]) /\ Val(obs[t]).seen = ctx[t]

----------------------------------------------------------------------------
(* Claims about the middleware chain and the auth gate, checked under SpecServe *)

\* C1: the RequestContext stage is the outermost stage of the chain: for every
\* HTTP request it is entered before, and exited after, every auth stage and
\* every user-supplied stage.
RequestContextIsOutermost ==
    \A t \in Tasks :
        /\ tasks[t].entered # <<>> => tasks[t].entered[1] = RequestContextStage
        /\ (tasks[t].pc = "up" /\ tasks[t].pos = 0 /\ tasks[t].exited # <<>>) =>
               tasks[t].exited[Len(tasks[t].exited)] = RequestContextStage

\* C2: a request rejected by the required-scope check has an active request
\* scope at that moment: the current request read there is not None and is the
\* request of the rejected call.
RejectedRequestHasScope ==
    \A t \in Tasks :
        tasks[t].outcome \in {"401", "403"} =>
            /\ ~IsNone(tasks[t].seen_at_check)
            /\ Val(tasks[t].seen_at_check).task = t

\* a request with a valid token that lacks the scope was rejected inside a scope
RejectedInsideScope ==
    \E t \in Tasks :
        /\ tasks[t].outcome = "403"
        /\ tasks[t].token = "valid"
        /\ ~IsNone(tasks[t].seen_at_check)

ProtocolEndpoints == {"handle_sse", "handle_post_message", "handle_streamable_http"}

\* the requests an application of a kind serves on its protocol-owned routes
ProtocolRequest(kind, path, method) ==
    \/ kind = "sse" /\ path = sse_path /\ method = "GET"
    \/ kind = "sse" /\ path = message_path
    \/ kind = "streamable_http" /\ path = streamable_http_path

\* C10: with no auth provider, whether or not auth settings are given, the auth
\* gate returns three empty lists, the application has no auth middleware, no
\* auth route and no required-scope wrapper, and a request to the SSE, message or
\* streamable-HTTP endpoint reaches it whatever token it carries, none included.
NoProviderMeansPublic ==
    /\ (lastBuild.fn # "none" /\ ~lastBuild.auth_server_provider) =>
            /\ ~lastBuild.raised
            /\ lastBuild.auth.middleware = <<>>
            /\ lastBuild.auth.auth_routes = <<>>
            /\ lastBuild.auth.required_scopes = <<>>
    /\ \A a \in DOMAIN apps :
         ~apps[a].auth_server_provider =>
            /\ \A i \in DOMAIN apps[a].user_middleware :
                 apps[a].user_middleware[i] \notin
                     {AuthenticationStage, AuthContextStage}
            /\ \A i \in DOMAIN apps[a].routes :
                 /\ apps[a].routes[i].endpoint # "auth"
                 /\ ~apps[a].routes[i].require_auth
    /\ \A t \in Tasks :
         LET k == tasks[t]
         IN (/\ k.pc \in {"endpoint", "up"}
             /\ ~apps[k.app].auth_server_provider
             /\ ProtocolRequest(apps[k.app].kind, k.path, k.method)) =>
                /\ k.endpoint \in ProtocolEndpoints
                /\ k.outcome \notin {"401", "403", "405"}

\* a request without a token is inside handle_sse of an application built with
\* auth settings but no provider
PublicEndpointReached ==
    \E t \in Tasks :
        /\ tasks[t].pc = "endpoint"
        /\ tasks[t].token = "none"
        /\ tasks[t].endpoint = "handle_sse"
        /\ ~apps[tasks[t].app].auth_server_provider
        /\ apps[tasks[t].app].auth_settings_given

\* the mount of an application requires scope x
MountRequiresX(a) ==
    /\ apps[a].kind = "streamable_http"
    /\ apps[a].auth_server_provider
    /\ \E i \in DOMAIN apps[a].routes :
          /\ apps[a].routes[i].path = streamable_http_path
          /\ apps[a].routes[i].required_scopes = <<"x">>

\* C11: in a streamable-HTTP application built with a provider and required
\* scope x, a request of any method to the mount without a token, or with a
\* valid token lacking x, is rejected with 401 or 403 and never enters
\* handle_streamable_http; a request with a valid token holding x enters it.
MountGuardedByScope ==
    \A t \in Tasks :
        LET k == tasks[t]
        IN (/\ k.pc \in {"endpoint", "up"}
            /\ MountRequiresX(k.app)
            /\ k.path = streamable_http_path) =>
               /\ k.token = "none" => (k.outcome = "401" /\ k.endpoint = "none")
               /\ k.token = "invalid" => (k.outcome = "401" /\ k.endpoint = "none")
               /\ k.token = "valid" => (k.outcome = "403" /\ k.endpoint = "none")
               /\ k.token = "valid_x" =>
                     /\ k.endpoint = "handle_streamable_http"
                     /\ k.manager = session_manager
                     /\ k.outcome \in {"none", "ok", "raised"}

\* a POST to the mount with a valid token lacking x was turned away with 403
MountRejectedMissingScope ==
    \E t \in Tasks :
        /\ tasks[t].pc = "up"
        /\ MountRequiresX(tasks[t].app)
        /\ tasks[t].path = streamable_http_path
        /\ tasks[t].method = "POST"
        /\ tasks[t].token = "valid"
        /\ tasks[t].outcome = "403"
        /\ tasks[t].endpoint = "none"

\* the user-supplied and the protocol-owned routes of an application
UserRoutesOf(a) == {i \in DOMAIN apps[a].routes : apps[a].routes[i].endpoint = "user"}
OwnRoutesOf(a) == DOMAIN apps[a].routes \ UserRoutesOf(a)

\* in the route table every protocol-owned route precedes every user route
OwnRoutesFirst ==
    \A a \in DOMAIN apps :
        apps[a].kind \in {"sse", "streamable_http"} =>
            \A i \in OwnRoutesOf(a), j \in UserRoutesOf(a) : i < j

\* C13 as stated: protocol-owned routes precede user routes, so a request whose
\* path matches a protocol-owned route goes to the protocol-owned route and
\* never to a user-supplied route with the same path.
OwnPathNeverToUserRoute ==
    /\ OwnRoutesFirst
    /\ \A t \in Tasks :
          LET k == tasks[t]
          IN (/\ k.route # 0
              /\ apps[k.app].kind \in {"sse", "streamable_http"}
              /\ \E i \in OwnRoutesOf(k.app) :
                    apps[k.app].routes[i].path = k.path) =>
                 k.route \in OwnRoutesOf(k.app)

\* C13, amended: protocol-owned routes precede user routes, so a request that a
\* protocol-owned route matches by path and method goes to the first such route
\* and never to a user route; a request whose path is a protocol-owned route's
\* but whose method that route does not accept goes to a user route, if one
\* matches it by path and method, and else gets 405 from the protocol route.
OwnRouteWinsFullMatch ==
    /\ OwnRoutesFirst
    /\ \A t \in Tasks :
          LET k == tasks[t]
              rs == apps[k.app].routes
              full == {i \in DOMAIN rs : rs[i].path = k.path /\ k.method \in rs[i].methods}
          IN (/\ k.route # 0
              /\ apps[k.app].kind \in {"sse", "streamable_http"}
              /\ \E i \in OwnRoutesOf(k.app) : rs[i].path = k.path) =>
                 IF full \cap OwnRoutesOf(k.app) # {}
                 THEN /\ k.route \in full \cap OwnRoutesOf(k.app)
                      /\ \A i \in full : k.route <= i
                 ELSE IF full # {}
                 THEN k.route \in UserRoutesOf(k.app) /\ k.route \in full
                 ELSE k.route \in OwnRoutesOf(k.app) /\ k.outcome = "405"

\* GET ssePath went to the SSE route of an application whose caller brought a
\* route for the same path and method
OwnRouteWonOverUserRoute ==
    \E t \in Tasks :
        /\ tasks[t].pc = "endpoint"
        /\ tasks[t].path = sse_path
        /\ tasks[t].method = "GET"
        /\ tasks[t].endpoint = "handle_sse"
        /\ \E j \in UserRoutesOf(tasks[t].app) :
              /\ apps[tasks[t].app].routes[j].path = sse_path
              /\ "GET" \in apps[tasks[t].app].routes[j].methods

\* the routes of an application that lead to an endpoint
RoutesTo(a, endpoint) ==
    {i \in DOMAIN apps[a].routes : apps[a].routes[i].endpoint = endpoint}

\* both SSE endpoints of an application built with a provider are wrapped, with
\* one and the same list, the one the auth gate took from the settings
SseEndpointsWrappedAlike ==
    \A a \in DOMAIN apps :
        (apps[a].kind = "sse" /\ apps[a].auth_server_provider) =>
            /\ RoutesTo(a, "handle_sse") # {}
            /\ RoutesTo(a, "handle_post_message") # {}
            /\ \A i \in RoutesTo(a, "handle_sse") \cup
                        RoutesTo(a, "handle_post_message") :
                  /\ apps[a].routes[i].require_auth
                  /\ lastBuild.app = a =>
                        apps[a].routes[i].required_scopes =
                            lastBuild.auth.required_scopes
                  /\ \A j \in RoutesTo(a, "handle_sse") \cup
                              RoutesTo(a, "handle_post_message") :
                        apps[a].routes[i].required_scopes =
                            apps[a].routes[j].required_scopes

\* every call to either endpoint is checked: without an authenticated user it
\* ends in 401, with a user lacking a required scope in 403, in both cases
\* outside the endpoint and with no connection of its own
SseCallsChecked ==
    \A t \in Tasks :
        LET k == tasks[t]
            required == lastBuild.auth.required_scopes
        IN (/\ k.pc \in {"endpoint", "up"}
            /\ apps[k.app].kind = "sse"
            /\ apps[k.app].auth_server_provider
            /\ lastBuild.app = k.app
            /\ ProtocolRequest("sse", k.path, k.method)) =>
               IF k.token \in {"none", "invalid"}
               THEN k.outcome = "401" /\ k.endpoint = "none" /\ k.conn = 0
               ELSE IF k.token = "valid" /\ required = <<"x">>
               THEN k.outcome = "403" /\ k.endpoint = "none" /\ k.conn = 0
               ELSE /\ k.outcome \notin {"401", "403"}
                    /\ k.endpoint = IF k.path = sse_path THEN "handle_sse"
                                    ELSE "handle_post_message"

\* the step that rejects a call leaves every connection and session as it was
RejectionTouchesNoConnection ==
    [][\A t \in Tasks :
          (tasks'[t].outcome \in {"401", "403"} /\ tasks[t].outcome = "none") =>
              connections' = connections]_vars

\* C12: in an SSE application built with a provider, GET ssePath and messagePath
\* are both guarded by the required-scope check with the same list, from the
\* settings, on every call; a call that fails it opens no connection, creates
\* no streams, starts no session and delivers no message.
SseEndpointsGuarded ==
    /\ [](SseEndpointsWrappedAlike /\ SseCallsChecked)
    /\ RejectionTouchesNoConnection

\* a message posted with a valid token lacking scope x was turned away
MessageRejectedMissingScope ==
    \E t \in Tasks :
        /\ tasks[t].pc = "up"
        /\ apps[tasks[t].app].kind = "sse"
        /\ tasks[t].path = message_path
        /\ tasks[t].token = "valid"
        /\ tasks[t].outcome = "403"
        /\ tasks[t].endpoint = "none"
        /\ tasks[t].conn = 0

----------------------------------------------------------------------------
(* A claim about SSE connections, checked under SpecSseFair *)

\* a closed connection stays as it is: it is never reopened and nothing is
\* delivered to its session
ClosedIsFinal ==
    [][\A c \in DOMAIN connections :
          connections[c].state = "closed" => connections'[c] = connections[c]]_vars

\* a connection is opened Connected with a running core, and once Closed has
\* both stream halves released, its core's loop over and no late message
ClosedIsReleased ==
    [](\A c \in DOMAIN connections :
          /\ connections[c].state \in {"connected", "closed"}
          /\ connections[c].state = "closed" =>
                /\ ~connections[c].read_open
                /\ ~connections[c].write_open
                /\ connections[c].core = "done"
                /\ ~connections[c].late)

\* whichever way the core's run ends, the connection is closed
EndingLeadsToClosed ==
    \A c \in 1..MaxConns :
        (c \in DOMAIN connections /\ connections[c].core = "done")
            ~> (c \in DOMAIN connections /\ connections[c].state = "closed")

\* C14: an SSE connection goes Idle -> Connected -> Closed and never leaves
\* Closed: the core's normal completion, the cancellation of the handling task
\* and a stream failure each lead to Closed, where both stream halves are
\* released, the core's loop is over and no message reaches the session.
ConnectionLifecycle == ClosedIsFinal /\ ClosedIsReleased /\ EndingLeadsToClosed

\* a session was closed by the cancellation of its task, and a message posted to
\* it afterwards was refused
ClosedByCancelRefusesMessage ==
    \E t, u \in Tasks :
        /\ tasks[t].endpoint = "handle_sse"
        /\ tasks[t].leaving = "cancelled"
        /\ tasks[t].conn # 0
        /\ connections[tasks[t].conn].state = "closed"
        /\ ~connections[tasks[t].conn].read_open
        /\ tasks[u].endpoint = "handle_post_message"
        /\ tasks[u].outcome = "raised"

----------------------------------------------------------------------------
(* A claim about failing builds, checked under SpecBuild *)

\* C9: with a provider and no settings, the auth gate and both builders fail with
\* the configuration error: no application is returned, none exists that was
\* built that way, and no session manager has been started.
ProviderWithoutSettingsFails ==
    /\ (/\ lastBuild.fn \in {"create_sse_app", "create_streamable_http_app"}
        /\ lastBuild.auth_server_provider
        /\ ~lastBuild.auth_settings_given) =>
           /\ lastBuild.auth.raised
           /\ lastBuild.raised
           /\ lastBuild.app = 0
           /\ ~lastBuild.started_after
    /\ \A a \in DOMAIN apps :
         apps[a].auth_server_provider => apps[a].auth_settings_given
    /\ Len(lifespans) = Len(apps)
    /\ \A m \in DOMAIN managers : ~managers[m].has_started

\* create_streamable_http_app was called with a provider and no settings and raised
StreamableBuildFailed ==
    /\ lastBuild.fn = "create_streamable_http_app"
    /\ lastBuild.auth_server_provider
    /\ ~lastBuild.auth_settings_given
    /\ lastBuild.raised
    /\ lastBuild.app = 0

----------------------------------------------------------------------------
(* Claims about the middleware list of built applications, checked under
   SpecBuild *)

\* how often a stage occurs in an application's middleware list
Occurrences(a, stage) ==
    Cardinality({i \in DOMAIN apps[a].user_middleware :
                    apps[a].user_middleware[i] = stage})

\* C16: after any sequence of build calls, also ones that use the same list of
\* the caller for several builds, the middleware chain of every built
\* application has exactly one RequestContext stage.
ExactlyOneRequestContext ==
    \A a \in DOMAIN apps : Occurrences(a, RequestContextStage) = 1

\* C19: the list create_sse_app and create_streamable_http_app hand to the
\* application is, whatever the caller supplied: the authentication stage and
\* the auth-context stage when auth is configured, then the caller's stages in
\* the caller's order, then the RequestContext stage as the last element.
FixedStageOrder ==
    /\ (lastBuild.fn \in {"create_sse_app", "create_streamable_http_app"}
           /\ lastBuild.app # 0) =>
          apps[lastBuild.app].user_middleware =
              (IF lastBuild.auth_server_provider
               THEN <<AuthenticationStage, AuthContextStage>> ELSE <<>>)
              \o lastBuild.middleware \o <<RequestContextStage>>
    /\ \A a \in DOMAIN apps :
          apps[a].kind \in {"sse", "streamable_http"} =>
             LET mw == apps[a].user_middleware
             IN /\ mw[Len(mw)] = RequestContextStage
                /\ \A i \in DOMAIN mw :
                      /\ mw[i] = AuthenticationStage <=>
                            (apps[a].auth_server_provider /\ i = 1)
                      /\ mw[i] = AuthContextStage <=>
                            (apps[a].auth_server_provider /\ i = 2)

\* an application was built with auth from a list of two stages of the caller
TwoUserStagesBehindAuth ==
    /\ lastBuild.fn = "create_streamable_http_app"
    /\ lastBuild.app # 0
    /\ lastBuild.auth_server_provider
    /\ lastBuild.middleware = <<"UserMiddleware2", "UserMiddleware1">>
    /\ apps[lastBuild.app].user_middleware =
          <<AuthenticationStage, AuthContextStage, "UserMiddleware2",
            "UserMiddleware1", RequestContextStage>>

----------------------------------------------------------------------------
(* Claims about the manager's construction, checked under SpecMode *)

\* right after the call that constructed it, the manager has that call's values
ModeIsConstructorsMode ==
    [](lastBuild.constructed =>
          /\ ~IsNone(lastBuild.mode)
          /\ session_manager # 0
          /\ managers[session_manager].mode = Val(lastBuild.mode))

\* no call changes the mode of a manager that exists, nor replaces the manager
ModeNeverChanges ==
    [][/\ \A m \in DOMAIN managers :
            m \in DOMAIN managers' /\ managers'[m].mode = managers[m].mode
       /\ session_manager # 0 => session_manager' = session_manager]_vars

\* C15: the manager's mode (stateless flag, JSON-response preference, event
\* store) is the one passed by the call that constructed it and never changes,
\* whatever values later create_streamable_http_app calls pass.
ModeFixedAtConstruction == ModeIsConstructorsMode /\ ModeNeverChanges

\* a second application was built by a call that passed another mode than the
\* manager has, and the manager kept its own
LaterCallPassedOtherMode ==
    /\ Len(apps) = 2
    /\ lastBuild.fn = "create_streamable_http_app"
    /\ lastBuild.app = 2
    /\ lastBuild.manager_before # 0
    /\ ~lastBuild.constructed
    /\ Val(lastBuild.mode) # managers[session_manager].mode

\* C17: a create_streamable_http_app call that fails with the configuration
\* error leaves the server as it was: it constructs no manager, and a server
\* that had none before the call has none after it.
FailedBuildLeavesServerUnchanged ==
    (lastBuild.fn = "create_streamable_http_app" /\ lastBuild.raised) =>
        /\ ~lastBuild.constructed
        /\ session_manager = lastBuild.manager_before

----------------------------------------------------------------------------
(* Claims about the session manager, checked under SpecLife and SpecLifeFair *)

\* C18: for one server, the manager's start, the entry of
\* session_manager.run(), is executed at most once over the manager's lifetime,
\* over any sequence of builds, startups and shutdowns.
RunEnteredAtMostOnce ==
    \A m \in DOMAIN managers : managers[m].run_calls <= 1


\* C6: after any sequence of create_streamable_http_app calls against the server
\* at most one session manager has been constructed, and every request an
\* application routes to handle_streamable_http goes to that one manager.
OneSessionManager ==
    /\ Len(managers) <= 1
    /\ session_manager = Len(managers)
    /\ apps # <<>> => session_manager = 1
    /\ \A t \in Tasks :
         tasks[t].endpoint = "handle_streamable_http" => tasks[t].manager = 1

\* two applications were built and the second routes a request to the manager
\* the first build constructed
SecondAppUsesFirstManager ==
    /\ Len(apps) = 2
    /\ Len(managers) = 1
    /\ \E t \in Tasks :
         /\ tasks[t].app = 2
         /\ tasks[t].endpoint = "handle_streamable_http"
         /\ tasks[t].manager = 1

\* C7: no request is routed into session_manager.handle_request before the
\* manager's start, the entry of session_manager.run() in the lifespan hook, has
\* completed.
StartedBeforeFirstRequest ==
    \A t \in Tasks :
        tasks[t].endpoint = "handle_streamable_http" =>
            /\ tasks[t].manager # 0
            /\ tasks[t].manager_started
            /\ managers[tasks[t].manager].run_entered >= 1

\* a request is inside handle_request of a started manager
RequestInStartedManager ==
    \E t \in Tasks :
        /\ tasks[t].pc = "endpoint"
        /\ tasks[t].endpoint = "handle_streamable_http"
        /\ tasks[t].manager_started

\* the manager's stop sequence runs only in the step in which the host ends the
\* shutdown of an application whose hook is inside run(), after its tasks
StopOnlyAtShutdown ==
    [][\A m \in DOMAIN managers :
          managers'[m].run_exited > managers[m].run_exited =>
              \E a \in DOMAIN apps :
                  /\ lifespans[a].state = "draining"
                  /\ lifespans[a].run_open
                  /\ lifespans'[a].state = "stopped"
                  /\ InFlight(a) = {}]_vars

\* while an application whose hook entered run() serves or drains, the manager runs
RunningWhileServing ==
    [](\A a \in DOMAIN apps :
          (lifespans[a].run_open /\ lifespans[a].state \in {"serving", "draining"}) =>
              managers[session_manager].running)

\* once an application whose hook entered run() stops serving, the stop sequence
\* is executed
StopEventually ==
    \A a \in 1..MaxApps :
        (a \in DOMAIN apps /\ lifespans[a].run_open /\ lifespans[a].state = "draining")
            ~> (/\ a \in DOMAIN apps
                /\ lifespans[a].state = "stopped"
                /\ ~managers[session_manager].running
                /\ managers[session_manager].run_exited = 1)

\* C8: once the lifespan hook has started the session manager, the stop sequence
\* is executed when the application finishes serving, not before serving ends,
\* and also when a request-handling task raised during serving.
StopAfterServing == StopOnlyAtShutdown /\ RunningWhileServing /\ StopEventually

\* the manager was stopped at the shutdown of an application in which a
\* request-handling task had raised
StoppedAfterRequestRaised ==
    \E a \in DOMAIN apps :
        /\ lifespans[a].state = "stopped"
        /\ lifespans[a].request_raised
        /\ managers[session_manager].run_exited = 1
        /\ ~managers[session_manager].running

====
